---- MODULE Spec2Model ----
(***************************************************************************)
(* Model of gt.vscode.wrapper._wrapper: the bundles-config cache           *)
(* (local_bundles.json + local_bundles_meta.json) and its staleness        *)
(* detection.                                                              *)
(*                                                                         *)
(* Strings are sequences of one-character strings, so that splitting and   *)
(* stripping the root-set string are computed as the code computes them.   *)
(* A path is such a string; "/" separates its components.                  *)
(*                                                                         *)
(* The filesystem gives every modification of a directory a new timestamp. *)
(* The code only ever compares an mtime with an earlier mtime of the same  *)
(* path, so st_mtime of a directory is modelled as the number of times the *)
(* path was modified (created, or an entry created or removed in it);      *)
(* overwriting an existing file does not modify its directory.             *)
(***************************************************************************)
EXTENDS Integers, Sequences, FiniteSets, TLC

\* ------------------------------------------------------------------ bounds
MaxMtime == 2       \* modifications of a directory by other programs
MaxCacheMtime == 4  \* modifications of _CONFIG_DIR before a cache file is deleted

\* ----------------------------------------------------------------- strings
WS == {" "}
SEP == ":"

A == <<"a">>
B == <<"b">>
AX == <<"a", "/", "x">>
AZ == <<"a", "/", "z">>
AXY == <<"a", "/", "x", "/", "y">>
G == <<"g">>

\* _CONFIG_DIR = _LOCAL_DATA / 'gt' / 'envoy'; G stands for _LOCAL_DATA/gt
CONFIG_DIR == <<"g", "/", "e">>

\* Directories other programs (git clone, rm -r) create and remove.
UserDirs == {B, AX}
AllDirs == {A, B, AX, AZ, AXY, G, CONFIG_DIR}

\* Values of ENVOY_BNDL_ROOTS.
RootStrs ==
  { <<>>,
    <<"a", ":", "b">>,
    <<"b", ":", "a">>,
    <<"a", ":", " ", ":", "b">>,
    <<"g">> }

\* What envoy.discover_bundles_auto() may return: the root of each bundle.
DiscoveryResults ==
  { <<[root |-> "y"], [root |-> "x"]>>,
    <<[root |-> "x"], [root |-> "x"]>> }

Procs == {1, 2}

\* str.split(sep)
RECURSIVE Split(_, _)
Split(s, sep) ==
  IF \A i \in 1..Len(s) : s[i] # sep
    THEN <<s>>
    ELSE LET k == CHOOSE i \in 1..Len(s) :
                    s[i] = sep /\ \A j \in 1..(i - 1) : s[j] # sep
         IN <<SubSeq(s, 1, k - 1)>> \o Split(SubSeq(s, k + 1, Len(s)), sep)

\* str.strip()
RECURSIVE Strip(_)
Strip(s) ==
  IF s = <<>> THEN s
  ELSE IF s[1] \in WS THEN Strip(Tail(s))
  ELSE IF s[Len(s)] \in WS THEN Strip(SubSeq(s, 1, Len(s) - 1))
  ELSE s

\* [r.strip() for r in roots_str.split(sep) if r.strip()]
RECURSIVE StripAll(_)
StripAll(segs) ==
  IF segs = <<>> THEN <<>>
  ELSE LET r == Strip(Head(segs))
       IN (IF r # <<>> THEN <<r>> ELSE <<>>) \o StripAll(Tail(segs))

SplitRoots(s) == StripAll(Split(s, SEP))

\* The same, tabulated over the root-set strings of the model.
RootsTable == [s \in RootStrs |-> SplitRoots(s)]
ParseRoots(s) == RootsTable[s]

\* str(Path(root_str)): a trailing separator is dropped
RECURSIVE PathStr(_)
PathStr(s) ==
  IF Len(s) > 1 /\ s[Len(s)] = "/" THEN PathStr(SubSeq(s, 1, Len(s) - 1)) ELSE s

\* child in root.iterdir()
IsChild(c, r) ==
  /\ Len(c) = Len(r) + 2
  /\ SubSeq(c, 1, Len(r)) = r
  /\ c[Len(r) + 1] = "/"

\* p lies below r at any depth
IsBelow(p, r) ==
  /\ Len(p) > Len(r) + 1
  /\ SubSeq(p, 1, Len(r)) = r
  /\ p[Len(r) + 1] = "/"

Parent(p) == SubSeq(p, 1, Len(p) - 2)

\* ------------------------------------------------------------ file contents
\* A file's text, by what json.loads makes of it.
\*   kind "absent":  no such file
\*   kind "invalid": text json.loads rejects (also a truncated write)
\*   kind "array":   valid JSON that is not an object (a list, a number)
\*   kind "object":  a JSON object; each of its keys is "missing", of the
\*                   expected type ("str", "dict", "list") or "other"
EmptyMt == [p \in {} |-> 0]

NoKey == [t |-> "missing", s |-> <<>>, d |-> EmptyMt]

Content(kind, roots, mt, bundles) ==
  [kind |-> kind, bndl_roots |-> roots, depth2_mtimes |-> mt, bundles |-> bundles]

NoFile == Content("absent", NoKey, NoKey, NoKey)
Invalid == Content("invalid", NoKey, NoKey, NoKey)
JsonArray == Content("array", NoKey, NoKey, NoKey)

StrVal(s) == [t |-> "str", s |-> s, d |-> EmptyMt]
DictVal(d) == [t |-> "dict", s |-> <<>>, d |-> d]
ListVal(s) == [t |-> "list", s |-> s, d |-> EmptyMt]

\* paths without its repeated elements
RECURSIVE Unique(_)
Unique(paths) ==
  IF paths = <<>> THEN <<>>
  ELSE LET init == Unique(SubSeq(paths, 1, Len(paths) - 1))
           x == paths[Len(paths)]
       IN IF \E i \in 1..Len(init) : init[i] = x THEN init ELSE Append(init, x)

\* The bundle list written through a set: duplicates are lost.
DumpsResultUnique(paths) == Content("object", NoKey, NoKey, ListVal(Unique(paths)))

\* json.dumps({'bundles': bundle_paths}, indent=2)
DumpsResult(paths) == Content("object", NoKey, NoKey, ListVal(paths))

\* sep.join(roots)
RECURSIVE JoinRoots(_)
JoinRoots(roots) ==
  IF roots = <<>> THEN <<>>
  ELSE IF Len(roots) = 1 THEN roots[1]
  ELSE roots[1] \o <<SEP>> \o JoinRoots(Tail(roots))

\* The metadata written with the parsed roots joined again instead of
\* roots_str itself.
DumpsMetaNormalised(rs, mt) ==
  Content("object", StrVal(JoinRoots(SplitRoots(rs))), DictVal(mt), NoKey)

\* json.dumps({'bndl_roots': roots_str, 'depth2_mtimes': mtimes}, indent=2)
DumpsMeta(rs, mt) == Content("object", StrVal(rs), DictVal(mt), NoKey)

VARIABLES
  dirs,          \* the directories that exist
  mtime,         \* st_mtime of each directory (0: it never existed)
  local_bundles, \* content of LOCAL_BUNDLES_PATH
  meta,          \* content of _META_PATH
  pc,            \* where each invocation of write_local_bundles stands
  force,         \* its force argument
  roots_str,     \* its roots_str local
  bundle_paths,  \* its bundle_paths local
  hist,          \* per invocation: what it has done so far
  last,          \* the last return, or crash between the two writes, while
                 \* nothing has happened since
  pending,       \* root-set strings whose fresh cache one structural change just followed
  res_by,        \* the invocation whose regeneration, still running, wrote
                 \* the Result File as it is now (0: none is running)
  scan_saw,      \* per invocation: the layout of its roots when its scan returned
  pair,          \* whether one complete regeneration wrote both files as
                 \* they are now, and whether the fingerprint it stored is the
                 \* layout its scan saw
  files,         \* the paths that are plain files
  fault,         \* the OS-level failure the next _scan_mtimes meets, if any
  fp_roots,      \* _scan_mtimes called on its own: its roots argument
  fp_out,        \* ... and what it returned
  environ,       \* os.environ: VSCODE_EXE and ENVOY_BUNDLES_CONFIG
  host,          \* the executables that exist, and what shutil.which finds
  launch,        \* launch_vscode: where it stands, its locals, what it did
  mainp          \* main() of __main__

fsVars == <<dirs, mtime>>
cacheVars == <<local_bundles, meta>>
procVars == <<pc, force, roots_str, bundle_paths, hist>>
fpVars == <<files, fault, fp_roots, fp_out>>
launchVars == <<environ, host, launch, mainp>>
auxVars == <<fpVars, launchVars>>
vars == <<dirs, mtime, local_bundles, meta, pc, force, roots_str,
          bundle_paths, hist, last, pending, res_by, scan_saw, pair, files,
          fault, fp_roots, fp_out, environ, host, launch, mainp>>

\* ------------------------------------------------------- staleness detection
\* An OS-level failure met by _scan_mtimes at the root `at`:
\*   "is_dir_raise": root.is_dir() raises (line 60; pathlib re-raises EACCES,
\*                   as for a root below a directory that cannot be searched)
\*   "is_dir_false": root.is_dir() answers False on the same error (a pathlib
\*                   that ignores every OSError)
\*   "stat":         root.stat() raises (line 63; the root vanished)
\*   "iterdir":      root.iterdir() raises (line 64; the root cannot be listed)
\*   "child":        child.is_dir() or child.stat() raises (lines 65-66) after
\*                   the children `seen` were visited
NoFault == [at |-> <<>>, op |-> "none", seen |-> {}]
FaultOps == {"is_dir_raise", "is_dir_false", "stat", "iterdir", "child"}

FaultAt(r, op) == fault.at = r /\ fault.op = op

\* Path.is_dir()
IsDir(p) == p \in dirs

\* root.iterdir(): every entry of the directory, files included
IterDir(r) == {c \in dirs \cup files : IsChild(c, r)}

\* Lines 64-66 without the is_dir() test: every entry is recorded.
ChildEntries(r) == IterDir(r)

\* Lines 64-66: the children that are directories
ChildDirs(r) == {c \in IterDir(r) : IsDir(c)}

\* Lines 60-68 without the is_dir() test of line 60.
RootKeysNoIsDir(r) ==
  IF FaultAt(r, "stat") THEN {}
  ELSE IF FaultAt(r, "iterdir") THEN {r}
  ELSE IF FaultAt(r, "child") THEN {r} \cup (fault.seen \cap ChildDirs(r))
  ELSE {r} \cup ChildDirs(r)

\* Lines 60-68: the keys one root adds to mtimes. What was recorded before
\* an OSError stays in the dict.
RootKeys(r) ==
  IF ~IsDir(r) \/ FaultAt(r, "is_dir_false") THEN {}
  ELSE IF FaultAt(r, "stat") THEN {}
  ELSE IF FaultAt(r, "iterdir") THEN {r}
  ELSE IF FaultAt(r, "child") THEN {r} \cup (fault.seen \cap ChildDirs(r))
  ELSE {r} \cup ChildDirs(r)

\* Line 60 is outside the try: an OSError of root.is_dir() leaves _scan_mtimes.
ScanRaises(roots) ==
  \E i \in 1..Len(roots) : FaultAt(PathStr(roots[i]), "is_dir_raise")

\* _scan_mtimes: the keys are the roots that are directories and their
\* immediate child directories; a later root overwrites an equal key.
ScanKeys(roots) == UNION { RootKeys(PathStr(roots[i])) : i \in 1..Len(roots) }

scan_mtimes(roots) == [k \in ScanKeys(roots) |-> mtime[k]]

\* meta.get('depth2_mtimes', {}) compared with a freshly scanned dict
MtimesDiffer(fp, m) ==
  CASE m.depth2_mtimes.t = "missing" -> fp # EmptyMt
    [] m.depth2_mtimes.t = "dict" -> fp # m.depth2_mtimes.d
    [] OTHER -> TRUE

\* _is_stale without the fingerprint comparison of lines 86-90.
is_stale_no_mtimes(rs) ==
  IF local_bundles.kind = "absent" \/ meta.kind = "absent" THEN "stale"
  ELSE IF meta.kind = "invalid" THEN "stale"
  ELSE IF meta.kind # "object" THEN "error"
  ELSE IF ~(meta.bndl_roots.t = "str" /\ meta.bndl_roots.s = rs) THEN "stale"
  ELSE "fresh"

\* _is_stale without the root-set comparison of lines 82-84.
is_stale_no_roots(rs) ==
  IF local_bundles.kind = "absent" \/ meta.kind = "absent" THEN "stale"
  ELSE IF meta.kind = "invalid" THEN "stale"
  ELSE IF meta.kind # "object" THEN "error"
  ELSE IF MtimesDiffer(scan_mtimes(ParseRoots(rs)), meta) THEN "stale"
  ELSE "fresh"

\* _is_stale without the try/except of lines 77-80.
is_stale_no_except(rs) ==
  IF local_bundles.kind = "absent" \/ meta.kind = "absent" THEN "stale"
  ELSE IF meta.kind # "object" THEN "error"
  ELSE IF ~(meta.bndl_roots.t = "str" /\ meta.bndl_roots.s = rs) THEN "stale"
  ELSE IF MtimesDiffer(scan_mtimes(ParseRoots(rs)), meta) THEN "stale"
  ELSE "fresh"

\* _is_stale ending in `return True`.
is_stale_never_fresh(rs) ==
  IF local_bundles.kind = "absent" \/ meta.kind = "absent" THEN "stale"
  ELSE IF meta.kind = "invalid" THEN "stale"
  ELSE IF meta.kind # "object" THEN "error"
  ELSE "stale"

\* _is_stale behind a lock that a running regeneration holds: while another
\* invocation is between its two writes the pair is not trusted.
is_stale_locked(rs) ==
  IF res_by # 0 THEN "stale"
  ELSE IF local_bundles.kind = "absent" \/ meta.kind = "absent" THEN "stale"
  ELSE IF meta.kind = "invalid" THEN "stale"
  ELSE IF meta.kind # "object" THEN "error"
  ELSE IF ~(meta.bndl_roots.t = "str" /\ meta.bndl_roots.s = rs) THEN "stale"
  ELSE IF MtimesDiffer(scan_mtimes(ParseRoots(rs)), meta) THEN "stale"
  ELSE "fresh"

\* _is_stale: "stale" (True), "fresh" (False) or "error" (an exception that
\* is not caught: meta.get on a value that is not a dict)
is_stale(rs) ==
  IF local_bundles.kind = "absent" \/ meta.kind = "absent" THEN "stale"
  ELSE IF meta.kind = "invalid" THEN "stale"
  ELSE IF meta.kind # "object" THEN "error"
  ELSE IF ~(meta.bndl_roots.t = "str" /\ meta.bndl_roots.s = rs) THEN "stale"
  ELSE IF MtimesDiffer(scan_mtimes(ParseRoots(rs)), meta) THEN "stale"
  ELSE "fresh"

\* What a call of _scan_mtimes gave: nothing yet, a dict, or an exception.
NotComputed == [status |-> "none", d |-> EmptyMt]
Returned(d) == [status |-> "ok", d |-> d]
Raised == [status |-> "raised", d |-> EmptyMt]

\* -------------------------------------------------------------- bookkeeping
NoLast == [ok |-> FALSE, crashed |-> FALSE, roots |-> <<>>]
NoHist == [judged |-> "none", log |-> <<>>, failed |-> "none"]

\* The Result File holds {"bundles": [string, ...]}.
ValidResult(f) == f.kind = "object" /\ f.bundles.t = "list"

\* The cache is fresh for rs as section 4.2 of the specification defines it:
\* both files exist, the metadata parses, names rs and holds the fingerprint
\* of the roots as they are now.
CacheFreshFor(rs) ==
  /\ local_bundles.kind # "absent"
  /\ meta.kind = "object"
  /\ meta.bndl_roots = StrVal(rs)
  /\ meta.depth2_mtimes.t = "dict"
  /\ meta.depth2_mtimes.d = [k \in ScanKeys(ParseRoots(rs)) |-> mtime[k]]

\* d is an immediate subdirectory of a root of rs that exists
UnderTrackedRoot(d, rs) ==
  \E i \in 1..Len(ParseRoots(rs)) :
    /\ PathStr(ParseRoots(rs)[i]) \in dirs
    /\ IsChild(d, PathStr(ParseRoots(rs)[i]))

\* A layout of the roots as a scan saw it: their fingerprint at that moment.
NoLayout == [known |-> FALSE, d |-> EmptyMt]
Layout(d) == [known |-> TRUE, d |-> d]

NoPair == [whole |-> FALSE, coherent |-> FALSE]

\* The directories ds are modified: each gets a new timestamp.
Touch(mt, ds) == [p \in AllDirs |-> IF p \in ds THEN mt[p] + 1 ELSE mt[p]]

Log(p, steps) == [hist EXCEPT ![p].log = @ \o steps]
Failed(p, steps, at) == [hist EXCEPT ![p].log = @ \o steps, ![p].failed = at]

\* The invocation of p ends (it returns or raises) and its locals are gone.
Ended(p, how) ==
  /\ pc' = [pc EXCEPT ![p] = how]
  /\ force' = [force EXCEPT ![p] = FALSE]
  /\ roots_str' = [roots_str EXCEPT ![p] = <<>>]
  /\ bundle_paths' = [bundle_paths EXCEPT ![p] = <<>>]

\* ------------------------------------------------ executable resolution
\* Paths of executables: what VSCODE_EXE may name, what shutil.which('code')
\* may find, and the two fallback locations in the order of the tuple.
V == <<"v">>
W == <<"w">>
FALLBACK_CODE_PATHS == << <<"u">>, <<"s">> >>

\* LOCAL_BUNDLES_PATH = _CONFIG_DIR / 'local_bundles.json'
LOCAL_BUNDLES_PATH == CONFIG_DIR \o <<"/", "l">>

\* An entry of os.environ.
Unset == [set |-> FALSE, v |-> <<>>]
EnvVal(s) == [set |-> TRUE, v |-> s]

\* os.environ.get(name, default)
EnvGet(entry, default) == IF entry.set THEN entry.v ELSE default

\* What resolve_code_exe gives: a path, or FileNotFoundError.
Found(exe) == [found |-> TRUE, exe |-> exe]
NotFound == [found |-> FALSE, exe |-> <<>>]

\* resolve_code_exe (lines 156-186): VSCODE_EXE if it names an existing
\* file, else `code` on PATH, else the first fallback path that exists.
resolve_code_exe ==
  LET explicit == Strip(EnvGet(environ.VSCODE_EXE, <<>>))
      hits == {i \in 1..Len(FALLBACK_CODE_PATHS) : FALLBACK_CODE_PATHS[i] \in host.exes}
  IN IF explicit # <<>> /\ explicit \in host.exes THEN Found(explicit)
     ELSE IF host.which # <<>> THEN Found(host.which)
     ELSE IF hits # {}
       THEN Found(FALLBACK_CODE_PATHS[CHOOSE i \in hits : \A j \in hits : i <= j])
     ELSE NotFound

\* launch_vscode before it is called.
NoLaunch ==
  [pc |-> "idle", extra_args |-> <<>>, code_exe |-> <<>>, log |-> <<>>,
   error |-> "none", spawned |-> <<>>,
   entry |-> [VSCODE_EXE |-> Unset, ENVOY_BUNDLES_CONFIG |-> Unset]]

\* main() before it is called.
NoMain == [pc |-> "idle", extra_args |-> <<>>, how |-> "none"]

\* The launcher is not in use.
LauncherIdle ==
  /\ environ = [VSCODE_EXE |-> Unset, ENVOY_BUNDLES_CONFIG |-> Unset]
  /\ host = [exes |-> {}, which |-> <<>>]
  /\ launch = NoLaunch
  /\ mainp = NoMain

\* -------------------------------------------------------------------- Init
Init ==
  /\ dirs = {A, AX}
  /\ mtime = [p \in AllDirs |-> IF p \in {A, AX} THEN 1 ELSE 0]
  /\ local_bundles = NoFile
  /\ meta = NoFile
  /\ pc = [p \in Procs |-> "idle"]
  /\ force = [p \in Procs |-> FALSE]
  /\ roots_str = [p \in Procs |-> <<>>]
  /\ bundle_paths = [p \in Procs |-> <<>>]
  /\ hist = [p \in Procs |-> NoHist]
  /\ last = NoLast
  /\ pending = {}
  /\ res_by = 0
  /\ scan_saw = [p \in Procs |-> NoLayout]
  /\ pair = NoPair
  /\ files = {}
  /\ fault = NoFault
  /\ fp_roots = <<>>
  /\ fp_out = NotComputed
  /\ LauncherIdle

\* ------------------------------------------------ _scan_mtimes on its own
\* Root paths as a caller may write them: with a trailing separator, or
\* naming a directory below another root.
FpRootStrs == {<<"a">>, <<"b">>, <<"a", "/">>, <<"a", "/", "x">>}

\* The roots argument: up to two roots, repetitions allowed.
FpRootLists ==
  {<<>>} \cup {<<r1>> : r1 \in FpRootStrs}
         \cup {<<r1, r2>> : r1 \in FpRootStrs, r2 \in FpRootStrs}

\* Every entry of a tree is a directory or a file, and lies in a directory.
WellFormedTree(ds, fs) ==
  /\ ds \cap fs = {}
  /\ \A q \in ds \cup fs : Len(q) > 1 => Parent(q) \in ds

\* st_mtime of each path: all equal, or one value per path.
FpMtimes ==
  { [q \in AllDirs |-> 1],
    [q \in AllDirs |-> Len(q) + (IF q[Len(q)] \in {"b", "z"} THEN 1 ELSE 0)] }

\* The failures a scan may meet: one failing call at one root.
Faults ==
  {NoFault} \cup
  { [at |-> r, op |-> o, seen |-> sn] :
      r \in {A, B, AX}, o \in FaultOps, sn \in {{}, {AX}, {AZ}} }

InitFP ==
  /\ dirs \in SUBSET {A, B, AX, AZ, AXY}
  /\ files \in SUBSET {A, B, AX, AZ}
  /\ WellFormedTree(dirs, files)
  /\ mtime \in FpMtimes
  /\ fault \in Faults
  /\ fault.seen # {} => (fault.at = A /\ fault.op = "child")
  /\ fp_roots \in FpRootLists
  /\ fp_out = NotComputed
  /\ local_bundles = NoFile
  /\ meta = NoFile
  /\ pc = [p \in Procs |-> "idle"]
  /\ force = [p \in Procs |-> FALSE]
  /\ roots_str = [p \in Procs |-> <<>>]
  /\ bundle_paths = [p \in Procs |-> <<>>]
  /\ hist = [p \in Procs |-> NoHist]
  /\ last = NoLast
  /\ pending = {}
  /\ res_by = 0
  /\ scan_saw = [p \in Procs |-> NoLayout]
  /\ pair = NoPair
  /\ LauncherIdle

\* _scan_mtimes(fp_roots) is called: it returns the dict or raises.
ComputeFingerprint ==
  /\ fp_out.status = "none"
  /\ fp_out' = IF ScanRaises(fp_roots) THEN Raised
                                       ELSE Returned(scan_mtimes(fp_roots))
  /\ UNCHANGED <<dirs, mtime, local_bundles, meta, pc, force, roots_str,
                 bundle_paths, hist, last, pending, res_by, scan_saw, pair,
                 files, fault, fp_roots, launchVars>>

\* ------------------------------------------------------ write_local_bundles
\* Line 115 written as `not _is_stale(roots_str) and not force`: the
\* staleness check is evaluated first.
JudgeStaleFirst(f, rs) ==
  IF is_stale(rs) = "error" THEN "error" ELSE IF f THEN "forced" ELSE is_stale(rs)

\* Line 115: `not force and not _is_stale(roots_str)`; with force the
\* staleness check is not evaluated.
Judge(f, rs) == IF f THEN "forced" ELSE is_stale(rs)

\* Lines 112-117: read ENVOY_BNDL_ROOTS, then `not force and not _is_stale`.
Call(p, f, rs) ==
  /\ pc[p] \in {"idle", "returned", "raised"}
  /\ LET j == Judge(f, rs)
     IN /\ CASE j = "fresh" -> Ended(p, "returned")
             [] j = "error" -> Ended(p, "raised")
             [] OTHER -> /\ pc' = [pc EXCEPT ![p] = "scan"]
                         /\ force' = [force EXCEPT ![p] = f]
                         /\ roots_str' = [roots_str EXCEPT ![p] = rs]
                         /\ bundle_paths' = [bundle_paths EXCEPT ![p] = <<>>]
        /\ hist' = [hist EXCEPT ![p] =
                      [judged |-> j, log |-> <<>>,
                       failed |-> IF j = "error" THEN "stale_check" ELSE "none"]]
        /\ last' = IF j = "fresh"
                     THEN [ok |-> TRUE, crashed |-> FALSE, roots |-> rs]
                     ELSE NoLast
  /\ pending' = IF f THEN {} ELSE pending
  /\ UNCHANGED auxVars
  /\ UNCHANGED <<scan_saw, pair>>
  /\ UNCHANGED res_by
  /\ UNCHANGED <<fsVars, cacheVars>>

\* str(b.root) of a bundle the scan returned
BundleRootStr(b) == b.root

\* Lines 119-121: envoy.discover_bundles_auto() returns bundles
Discover(p, bundles) ==
  /\ pc[p] = "scan"
  /\ pc' = [pc EXCEPT ![p] = "mkdir"]
  /\ bundle_paths' = [bundle_paths EXCEPT ![p] =
                        [i \in 1..Len(bundles) |-> BundleRootStr(bundles[i])]]
  /\ hist' = Log(p, <<"scan">>)
  /\ UNCHANGED <<fsVars, cacheVars, force, roots_str, last>>
  /\ pending' = {}
  /\ UNCHANGED auxVars
  /\ scan_saw' = [scan_saw EXCEPT ![p] = Layout(scan_mtimes(ParseRoots(roots_str[p])))]
  /\ UNCHANGED pair
  /\ UNCHANGED res_by

\* Line 120: envoy.discover_bundles_auto() raises
DiscoverFail(p) ==
  /\ pc[p] = "scan"
  /\ Ended(p, "raised")
  /\ hist' = Failed(p, <<"scan">>, "scan")
  /\ UNCHANGED <<fsVars, cacheVars, last>>
  /\ pending' = {}
  /\ UNCHANGED auxVars
  /\ UNCHANGED <<scan_saw, pair>>
  /\ UNCHANGED res_by

\* Line 123: _CONFIG_DIR.mkdir(parents=True, exist_ok=True)
MkConfigDir(p) ==
  /\ pc[p] = "mkdir"
  /\ pc' = [pc EXCEPT ![p] = "wres"]
  /\ IF CONFIG_DIR \in dirs
       THEN UNCHANGED fsVars
       ELSE /\ dirs' = dirs \cup {G, CONFIG_DIR}
            /\ mtime' = Touch(mtime, {G, CONFIG_DIR})
  /\ hist' = Log(p, <<"mkdir">>)
  /\ UNCHANGED <<cacheVars, force, roots_str, bundle_paths, last>>
  /\ pending' = {}
  /\ UNCHANGED auxVars
  /\ UNCHANGED <<scan_saw, pair>>
  /\ UNCHANGED res_by

\* Line 123: mkdir raises OSError
MkConfigDirFail(p) ==
  /\ pc[p] = "mkdir"
  /\ CONFIG_DIR \notin dirs
  /\ Ended(p, "raised")
  /\ hist' = Failed(p, <<>>, "mkdir")
  /\ UNCHANGED <<fsVars, cacheVars, last>>
  /\ pending' = {}
  /\ UNCHANGED auxVars
  /\ scan_saw' = [scan_saw EXCEPT ![p] = NoLayout]
  /\ UNCHANGED pair
  /\ UNCHANGED res_by

\* Path.write_text on a file of _CONFIG_DIR: creating the file modifies the
\* directory, overwriting it does not.
CreateIn(old) ==
  IF old.kind = "absent"
    THEN /\ mtime' = Touch(mtime, {CONFIG_DIR})
         /\ dirs' = dirs
    ELSE UNCHANGED fsVars

\* Lines 124-128: LOCAL_BUNDLES_PATH.write_text(json.dumps({'bundles': ...}))
WriteResult(p) ==
  /\ pc[p] = "wres"
  /\ pc' = [pc EXCEPT ![p] = "wmeta"]
  /\ local_bundles' = DumpsResult(bundle_paths[p])
  /\ CreateIn(local_bundles)
  /\ hist' = Log(p, <<"result">>)
  /\ UNCHANGED <<meta, force, roots_str, bundle_paths, last>>
  /\ pending' = {}
  /\ UNCHANGED auxVars
  /\ pair' = NoPair
  /\ UNCHANGED scan_saw
  /\ res_by' = p

\* Line 124 inside a try/except that swallows the OSError: the regeneration
\* goes on to the metadata.
WriteResultFailMasked(p, opened) ==
  /\ pc[p] = "wres"
  /\ pc' = [pc EXCEPT ![p] = "wmeta"]
  /\ IF opened
       THEN local_bundles' = Invalid /\ CreateIn(local_bundles)
       ELSE UNCHANGED <<local_bundles, fsVars>>
  /\ hist' = Failed(p, <<>>, "result")
  /\ UNCHANGED <<meta, force, roots_str, bundle_paths, last>>
  /\ pending' = {}
  /\ UNCHANGED auxVars
  /\ scan_saw' = [scan_saw EXCEPT ![p] = NoLayout]
  /\ pair' = IF opened THEN NoPair ELSE pair
  /\ res_by' = IF opened THEN p ELSE res_by

\* Line 124: write_text raises OSError, before the file is opened or after
\* it was truncated and partly written
WriteResultFail(p, opened) ==
  /\ pc[p] = "wres"
  /\ Ended(p, "raised")
  /\ IF opened
       THEN local_bundles' = Invalid /\ CreateIn(local_bundles)
       ELSE UNCHANGED <<local_bundles, fsVars>>
  /\ hist' = Failed(p, <<>>, "result")
  /\ UNCHANGED <<meta, last>>
  /\ pending' = {}
  /\ UNCHANGED auxVars
  /\ scan_saw' = [scan_saw EXCEPT ![p] = NoLayout]
  /\ pair' = IF opened THEN NoPair ELSE pair
  /\ res_by' = IF opened THEN 0 ELSE res_by

\* Lines 130-141: the roots are parsed, _scan_mtimes(roots) is evaluated, the
\* metadata is written and the path returned
WriteMeta(p) ==
  /\ pc[p] = "wmeta"
  /\ Ended(p, "returned")
  /\ meta' = DumpsMeta(roots_str[p], scan_mtimes(ParseRoots(roots_str[p])))
  /\ CreateIn(meta)
  /\ hist' = Log(p, <<"fingerprint", "meta">>)
  /\ last' = [ok |-> TRUE, crashed |-> FALSE, roots |-> roots_str[p]]
  /\ UNCHANGED local_bundles
  /\ pending' = {}
  /\ UNCHANGED auxVars
  /\ pair' = [whole |-> res_by = p,
               coherent |-> res_by = p /\ scan_saw[p] = Layout(meta'.depth2_mtimes.d)]
  /\ scan_saw' = [scan_saw EXCEPT ![p] = NoLayout]
  /\ res_by' = IF res_by = p THEN 0 ELSE res_by

\* Line 131: write_text raises OSError
WriteMetaFail(p, opened) ==
  /\ pc[p] = "wmeta"
  /\ Ended(p, "raised")
  /\ IF opened
       THEN meta' = Invalid /\ CreateIn(meta)
       ELSE UNCHANGED <<meta, fsVars>>
  /\ hist' = Failed(p, <<"fingerprint">>, "meta")
  /\ last' = IF opened THEN NoLast
                       ELSE [ok |-> FALSE, crashed |-> TRUE, roots |-> roots_str[p]]
  /\ UNCHANGED local_bundles
  /\ pending' = {}
  /\ UNCHANGED auxVars
  /\ pair' = IF opened THEN NoPair ELSE pair
  /\ scan_saw' = [scan_saw EXCEPT ![p] = NoLayout]
  /\ res_by' = IF res_by = p THEN 0 ELSE res_by

\* ------------------------------------------------------------ launch_vscode
\* Arguments for `code`, as given on the command line.
ExtraArgs == { <<>>, <<"--wait", "f.py">>, <<"f.py", "--wait">> }

\* Values of VSCODE_EXE.
VscodeExeValues == { Unset, EnvVal(<<" ">>), EnvVal(V), EnvVal(<<" ", "v", " ">>) }

\* Values of ENVOY_BNDL_ROOTS when the launcher runs.
LaunchRootStrs == { <<"b", ":", "a">>, <<"g">> }

cacheGhosts == <<last, pending, res_by, scan_saw, pair>>

\* The argument list in reverse.
SpawnArgvReversed(exe, args) ==
  <<exe>> \o [i \in 1..Len(args) |-> args[Len(args) + 1 - i]]

\* Line 222: [code_exe] + list(extra_args)
SpawnArgv(exe, args) == <<exe>> \o args

\* Line 193: launch_vscode(extra_args) is called; write_local_bundles has
\* not been called by it yet.
LaunchEnter(args) ==
  /\ mainp.pc = "idle"
  /\ launch.pc \in {"idle", "returned", "raised"}
  /\ pc[1] \in {"idle", "returned", "raised"}
  /\ launch' = [NoLaunch EXCEPT !.pc = "ensure", !.extra_args = args,
                                !.entry = environ]
  /\ pc' = [pc EXCEPT ![1] = "idle"]
  /\ UNCHANGED <<fsVars, cacheVars, force, roots_str, bundle_paths, hist,
                 cacheGhosts, fpVars, environ, host, mainp>>

\* Line 212: bundles_config = write_local_bundles(), force left at False
LaunchEnsure ==
  /\ launch.pc = "ensure"
  /\ pc[1] = "idle"
  /\ \E rs \in LaunchRootStrs : Call(1, FALSE, rs)

\* Line 212: an exception of write_local_bundles leaves launch_vscode
LaunchEnsureRaised ==
  /\ launch.pc = "ensure"
  /\ pc[1] = "raised"
  /\ launch' = [launch EXCEPT !.pc = "raised", !.error = "other"]
  /\ UNCHANGED <<fsVars, cacheVars, procVars, cacheGhosts, fpVars, environ,
                 host, mainp>>

\* Line 213: code_exe = resolve_code_exe(), once write_local_bundles returned
LaunchResolve ==
  /\ launch.pc = "ensure"
  /\ pc[1] = "returned"
  /\ launch' = IF resolve_code_exe.found
                 THEN [launch EXCEPT !.pc = "setenv",
                                     !.log = <<"ensure", "resolve">>,
                                     !.code_exe = resolve_code_exe.exe]
                 ELSE [launch EXCEPT !.pc = "raised",
                                     !.log = <<"ensure", "resolve">>,
                                     !.error = "FileNotFoundError"]
  /\ UNCHANGED <<fsVars, cacheVars, procVars, cacheGhosts, fpVars, environ,
                 host, mainp>>

\* Line 219: os.environ['ENVOY_BUNDLES_CONFIG'] = str(bundles_config)
LaunchSetEnv ==
  /\ launch.pc = "setenv"
  /\ environ' = [environ EXCEPT !.ENVOY_BUNDLES_CONFIG = EnvVal(LOCAL_BUNDLES_PATH)]
  /\ launch' = [launch EXCEPT !.pc = "spawn", !.log = @ \o <<"setenv">>]
  /\ UNCHANGED <<fsVars, cacheVars, procVars, cacheGhosts, fpVars, host, mainp>>

\* Line 222: envoy.proc.spawn([code_exe] + list(extra_args), inherit_env=True)
LaunchSpawn ==
  /\ launch.pc = "spawn"
  /\ launch' = [launch EXCEPT
                  !.pc = "returned",
                  !.log = @ \o <<"spawn">>,
                  !.spawned = @ \o <<[argv |-> SpawnArgv(launch.code_exe, launch.extra_args),
                                      env |-> environ]>>]
  /\ UNCHANGED <<fsVars, cacheVars, procVars, cacheGhosts, fpVars, environ,
                 host, mainp>>

\* --------------------------------------------------------------------- main
\* sys.argv: the program and its arguments
MainArgvs == { <<"wrapper">>, <<"wrapper", "--wait", "f.py">> }

\* The names the module _wrapper defines (`wrapper` in __main__).
WrapperAttrs ==
  { "json", "logging", "os", "shutil", "subprocess", "Path", "envoy", "log",
    "_LOCAL_DATA", "_CONFIG_DIR", "LOCAL_BUNDLES_PATH", "_META_PATH",
    "_scan_mtimes", "_is_stale", "write_local_bundles", "_FALLBACK_CODE_PATHS",
    "resolve_code_exe", "launch_vscode" }

\* Line 40: extra_args = sys.argv[1:]
MainStart(argv) ==
  /\ mainp.pc = "idle"
  /\ launch.pc = "idle"
  /\ mainp' = [mainp EXCEPT !.pc = "launch", !.extra_args = Tail(argv)]
  /\ UNCHANGED <<fsVars, cacheVars, procVars, cacheGhosts, fpVars, environ,
                 host, launch>>

\* Line 43: wrapper.launch is looked up; _wrapper defines no such name, the
\* AttributeError is not a FileNotFoundError and leaves main.
MainLaunch ==
  /\ mainp.pc = "launch"
  /\ "launch" \notin WrapperAttrs
  /\ mainp' = [mainp EXCEPT !.pc = "ended", !.how = "AttributeError"]
  /\ UNCHANGED <<fsVars, cacheVars, procVars, cacheGhosts, fpVars, environ,
                 host, launch>>

\* ------------------------------------------------------------- environment
\* The directories that creating d modifies: d and the directory it is in.
Modified(d) == {d} \cup (IF Len(d) > 1 THEN {Parent(d)} ELSE {})

\* Another program creates directory d (a clone, a new namespace).
MkDir(d) ==
  /\ d \in UserDirs \ dirs
  /\ Len(d) > 1 => Parent(d) \in dirs
  /\ \A q \in Modified(d) : mtime[q] < MaxMtime
  /\ dirs' = dirs \cup {d}
  /\ mtime' = Touch(mtime, Modified(d))
  /\ pending' = {rs \in RootStrs : CacheFreshFor(rs) /\ UnderTrackedRoot(d, rs)}
  /\ UNCHANGED auxVars
  /\ UNCHANGED <<scan_saw, pair>>
  /\ UNCHANGED res_by
  /\ last' = NoLast
  /\ UNCHANGED <<cacheVars, procVars>>

\* Another program removes directory d and what is below it.
RmDir(d) ==
  /\ d \in UserDirs \cap dirs
  /\ \A q \in Modified(d) \ {d} : mtime[q] < MaxMtime
  /\ dirs' = {q \in dirs : q # d /\ ~IsBelow(q, d)}
  /\ mtime' = Touch(mtime, Modified(d) \ {d})
  /\ pending' = {rs \in RootStrs : CacheFreshFor(rs) /\ UnderTrackedRoot(d, rs)}
  /\ UNCHANGED auxVars
  /\ UNCHANGED <<scan_saw, pair>>
  /\ UNCHANGED res_by
  /\ last' = NoLast
  /\ UNCHANGED <<cacheVars, procVars>>

\* What something other than this program may leave in the Metadata File.
TamperContents ==
  { Invalid, JsonArray,
    Content("object", StrVal(<<>>), NoKey, NoKey),
    Content("object", NoKey, DictVal(EmptyMt), NoKey) }

\* The Metadata File is overwritten from outside.
TamperMeta(c) ==
  /\ meta.kind # "absent"
  /\ meta' = c
  /\ last' = NoLast
  /\ pending' = {}
  /\ UNCHANGED auxVars
  /\ pair' = NoPair
  /\ UNCHANGED scan_saw
  /\ UNCHANGED res_by
  /\ UNCHANGED <<fsVars, local_bundles, procVars>>

\* A cache file is deleted from outside.
DeleteFile(which) ==
  /\ mtime[CONFIG_DIR] < MaxCacheMtime
  /\ IF which = "meta"
       THEN meta.kind # "absent" /\ meta' = NoFile /\ UNCHANGED local_bundles
       ELSE local_bundles.kind # "absent" /\ local_bundles' = NoFile /\ UNCHANGED meta
  /\ mtime' = Touch(mtime, {CONFIG_DIR})
  /\ dirs' = dirs
  /\ last' = NoLast
  /\ pending' = {}
  /\ UNCHANGED auxVars
  /\ pair' = NoPair
  /\ UNCHANGED scan_saw
  /\ res_by' = IF which = "result" THEN 0 ELSE res_by
  /\ UNCHANGED procVars

\* ---------------------------------------------------------- specifications
\* The steps of a regeneration (lines 119-141).
Regen(p) ==
  \/ \E bs \in DiscoveryResults : Discover(p, bs)
  \/ DiscoverFail(p)
  \/ MkConfigDir(p)
  \/ MkConfigDirFail(p)
  \/ WriteResult(p)
  \/ \E o \in BOOLEAN : WriteResultFail(p, o)
  \/ WriteMeta(p)
  \/ \E o \in BOOLEAN : WriteMetaFail(p, o)

Step(p) ==
  \/ \E f \in BOOLEAN, rs \in RootStrs : Call(p, f, rs)
  \/ Regen(p)

\* Between the staleness check and the fingerprint (lines 119-128) the
\* invocation reads no directory that another program changes, so a change
\* of the directories during these steps is taken when they are over.
Readable == \A p \in Procs : pc[p] \in {"idle", "returned", "raised", "wmeta"}

\* The cache files are touched from outside only between invocations.
Quiescent == \A p \in Procs : pc[p] \in {"idle", "returned", "raised"}

Env ==
  \/ \E d \in UserDirs : Readable /\ MkDir(d)
  \/ \E d \in UserDirs : Readable /\ RmDir(d)
  \/ \E c \in TamperContents : Quiescent /\ TamperMeta(c)
  \/ \E w \in {"meta", "result"} : Quiescent /\ DeleteFile(w)

\* One invocation at a time (section 1 of the specification).
Next == Step(1) \/ Env

Spec == Init /\ [][Next]_vars

\* Two invocations racing (section 5 of the specification): their steps
\* interleave freely, nothing locks the cache files.
NextConc == Step(1) \/ Step(2)

SpecConc == Init /\ [][NextConc]_vars

\* The launcher and the entry point, on every host and VSCODE_EXE.
InitLaunch ==
  /\ dirs = {A, AX}
  /\ mtime = [p \in AllDirs |-> IF p \in {A, AX} THEN 1 ELSE 0]
  /\ local_bundles = NoFile
  /\ meta = NoFile
  /\ pc = [p \in Procs |-> "idle"]
  /\ force = [p \in Procs |-> FALSE]
  /\ roots_str = [p \in Procs |-> <<>>]
  /\ bundle_paths = [p \in Procs |-> <<>>]
  /\ hist = [p \in Procs |-> NoHist]
  /\ last = NoLast
  /\ pending = {}
  /\ res_by = 0
  /\ scan_saw = [p \in Procs |-> NoLayout]
  /\ pair = NoPair
  /\ files = {}
  /\ fault = NoFault
  /\ fp_roots = <<>>
  /\ fp_out = NotComputed
  /\ environ \in [VSCODE_EXE : VscodeExeValues, ENVOY_BUNDLES_CONFIG : {Unset}]
  /\ host \in [exes : SUBSET ({V} \cup {FALLBACK_CODE_PATHS[i] : i \in 1..Len(FALLBACK_CODE_PATHS)}),
                which : {<<>>, W}]
  /\ launch = NoLaunch
  /\ mainp = NoMain

NextLaunch ==
  \/ \E args \in ExtraArgs : LaunchEnter(args)
  \/ LaunchEnsure
  \/ Regen(1)
  \/ LaunchEnsureRaised
  \/ LaunchResolve
  \/ LaunchSetEnv
  \/ LaunchSpawn
  \/ \E argv \in MainArgvs : MainStart(argv)
  \/ MainLaunch

SpecLaunch == InitLaunch /\ [][NextLaunch]_vars

\* The fingerprint function alone, over every tree, root list and failure.
NextFP == ComputeFingerprint

SpecFP == InitFP /\ [][NextFP]_vars

\* ------------------------------------------------------------------ claims
\* What a complete regeneration does, in order.
RegenLog == <<"scan", "mkdir", "result", "fingerprint", "meta">>

\* p returns from a regeneration in this step.
Regenerated(p) == pc[p] = "wmeta" /\ pc'[p] = "returned"

\* A regeneration that returns has invoked the scan function once and has
\* written both files, the metadata for the roots it was given.
RegenWritesBoth(p) ==
  Regenerated(p) =>
    /\ hist'[p].log = RegenLog
    /\ ValidResult(local_bundles')
    /\ meta'.kind = "object"
    /\ meta'.bndl_roots = StrVal(roots_str[p])
    /\ meta'.depth2_mtimes.t = "dict"

\* C1 (as claimed): a call with force=false that directly follows a
\* successful return, with the same root-set string and nothing changed in
\* between, is a cache hit and does not invoke the scan function.
C1_SecondCallIsHit ==
  [][\A p \in Procs, rs \in RootStrs :
       (last.ok /\ last.roots = rs /\ Call(p, FALSE, rs))
         => (hist'[p].judged = "fresh" /\ pc'[p] = "returned")]_vars

\* C2: a call with force=true never consults the staleness check, whatever
\* the cache files hold, and when it returns it has invoked the scan function
\* exactly once and written both files.
C2_ForceRegenerates ==
  [][\A p \in Procs :
       /\ \A rs \in RootStrs :
            Call(p, TRUE, rs) => (hist'[p].judged = "forced" /\ pc'[p] = "scan")
       /\ hist[p].judged = "forced" => RegenWritesBoth(p)
       /\ (hist'[p].judged = "forced" /\ pc'[p] = "returned")
            => hist'[p].log = RegenLog]_vars

C2_Witness ==
  \E p \in Procs :
    /\ pc[p] = "returned"
    /\ hist[p].judged = "forced"
    /\ hist[p].log = RegenLog
    /\ ValidResult(local_bundles)
    /\ meta.kind = "object"

FreshForOther(rs) ==
  /\ meta.kind = "object"
  /\ meta.bndl_roots.t = "str"
  /\ meta.bndl_roots.s # rs
  /\ CacheFreshFor(meta.bndl_roots.s)

\* C4: a call with force=false and a root-set string that differs from the
\* one a fresh cache was stored for is judged stale, also when both strings
\* parse to the same roots and no mtime changed; when it returns it has
\* invoked the scan function and written both files.
C4_RootSetSensitivity ==
  [][\A p \in Procs :
       /\ \A rs \in RootStrs :
            (FreshForOther(rs) /\ Call(p, FALSE, rs))
              => (hist'[p].judged = "stale" /\ pc'[p] = "scan")
       /\ hist[p].judged = "stale" => RegenWritesBoth(p)]_vars

C4_Witness ==
  \E p \in Procs :
    /\ pc[p] = "scan"
    /\ hist[p].judged = "stale"
    /\ FreshForOther(roots_str[p])
    /\ ParseRoots(meta.bndl_roots.s) = ParseRoots(roots_str[p])

\* C5: with a Metadata File that is not valid JSON and a valid Result File, a
\* call with force=false does not raise from the staleness check; it is
\* judged stale, and when it returns it has invoked the scan function and
\* written both files.
C5_CorruptMetadata ==
  [][\A p \in Procs :
       /\ \A rs \in RootStrs :
            (meta.kind = "invalid" /\ ValidResult(local_bundles) /\ Call(p, FALSE, rs))
              => (hist'[p].judged = "stale" /\ pc'[p] = "scan")
       /\ hist[p].judged = "stale" => RegenWritesBoth(p)]_vars

C5_Witness ==
  \E p \in Procs :
    /\ pc[p] = "scan"
    /\ hist[p].judged = "stale"
    /\ meta.kind = "invalid"
    /\ ValidResult(local_bundles)

\* The metadata has the shape {"bndl_roots": string, "depth2_mtimes": mapping}.
WellShaped(m) ==
  m.kind = "object" /\ m.bndl_roots.t = "str" /\ m.depth2_mtimes.t = "dict"

\* C6 (as claimed): whatever an existing Metadata File holds that is not of
\* the expected shape, a call with force=false is judged stale: the staleness
\* check raises nothing and the cache is regenerated.
C6_UnreadableIsStale ==
  [][\A p \in Procs, rs \in RootStrs :
       (/\ local_bundles.kind # "absent"
        /\ meta.kind # "absent"
        /\ ~WellShaped(meta)
        /\ Call(p, FALSE, rs))
         => (hist'[p].judged = "stale" /\ pc'[p] = "scan")]_vars

\* C7 (as claimed): when a call has returned, by cache hit or by
\* regeneration, the Result File exists and holds {"bundles": [...]}.
C7_ResultFileValid ==
  \A p \in Procs : (pc[p] = "returned" /\ last.ok) => ValidResult(local_bundles)

\* The roots of the bundles a scan returned, in its order.
RootsOf(bs) == [i \in 1..Len(bs) |-> bs[i].root]

\* C8: the Result File a regeneration writes holds the bundle roots the scan
\* function returned, as the same sequence: same order, duplicates kept.
C8_RoundTrip ==
  [][\A p \in Procs :
       /\ \A bs \in DiscoveryResults :
            Discover(p, bs) => bundle_paths'[p] = RootsOf(bs)
       /\ pc'[p] = "wmeta"
            => (local_bundles'.kind = "object"
                /\ local_bundles'.bundles = ListVal(bundle_paths'[p]))
       /\ Regenerated(p) => local_bundles'.bundles = ListVal(bundle_paths[p])]_vars

C8_Witness ==
  \E p \in Procs :
    /\ pc[p] = "wmeta"
    /\ bundle_paths[p] = <<"x", "x">>
    /\ local_bundles.bundles.s = <<"x", "x">>

\* C9: a call with force=false on a fresh cache returns at once: the scan
\* function is not invoked and neither the cache files nor any directory
\* (the cache directory included) is created or modified.
C9_FreshHitChangesNothing ==
  [][\A p \in Procs, rs \in RootStrs :
       (CacheFreshFor(rs) /\ Call(p, FALSE, rs))
         => /\ pc'[p] = "returned"
            /\ hist'[p] = [judged |-> "fresh", log |-> <<>>, failed |-> "none"]
            /\ UNCHANGED <<dirs, mtime, local_bundles, meta>>]_vars

C9_Witness ==
  \E p \in Procs :
    /\ pc[p] = "returned"
    /\ hist[p].judged = "fresh"
    /\ hist[p].log = <<>>
    /\ last.ok
    /\ CacheFreshFor(last.roots)

\* C10: when creating the cache directory or writing either file fails, the
\* invocation has raised; it has executed no later step of the regeneration
\* and does not return.
C10_WriteFailuresPropagate ==
  \A p \in Procs :
    /\ hist[p].failed = "mkdir" => (pc[p] = "raised" /\ hist[p].log = <<"scan">>)
    /\ hist[p].failed = "result"
         => (pc[p] = "raised" /\ hist[p].log = <<"scan", "mkdir">>)
    /\ hist[p].failed = "meta"
         => (pc[p] = "raised"
             /\ hist[p].log = <<"scan", "mkdir", "result", "fingerprint">>)

C10_Witness ==
  \E p \in Procs :
    /\ pc[p] = "raised"
    /\ hist[p].failed = "result"
    /\ hist[p].log = <<"scan", "mkdir">>
    /\ meta.kind = "object"

\* The roots of rs that do not exist on disk.
MissingRoots(rs) ==
  {PathStr(ParseRoots(rs)[i]) : i \in 1..Len(ParseRoots(rs))} \ dirs

\* C11: while a configured root does not exist, computing the fingerprint of
\* the roots raises nothing and the fingerprint has no entry for that root or
\* for anything below it; and a call with force=false that directly follows a
\* successful return for the same root-set string, with the root still
\* missing and nothing changed, is judged fresh.
C11_MissingRootTolerance ==
  /\ [](\A rs \in RootStrs : \A r \in MissingRoots(rs) :
          /\ ~ScanRaises(ParseRoots(rs))
          /\ \A k \in DOMAIN scan_mtimes(ParseRoots(rs)) : k # r /\ ~IsBelow(k, r))
  /\ [][\A p \in Procs, rs \in RootStrs :
          (last.ok /\ last.roots = rs /\ MissingRoots(rs) # {} /\ Call(p, FALSE, rs))
            => (hist'[p].judged = "fresh" /\ pc'[p] = "returned")]_vars

C11_Witness ==
  \E p \in Procs :
    /\ pc[p] = "returned"
    /\ hist[p].judged = "fresh"
    /\ last.ok
    /\ B \in MissingRoots(last.roots)
    /\ A \in DOMAIN meta.depth2_mtimes.d
    /\ B \notin DOMAIN meta.depth2_mtimes.d

\* C13 (as claimed): when a regeneration has written the Result File and
\* ended before it wrote the Metadata File, the next call with force=false and
\* the same root-set string is judged stale and regenerates, whatever the
\* Metadata File held before.
C13_CrashRepair ==
  [][\A p \in Procs, rs \in RootStrs :
       (last.crashed /\ last.roots = rs /\ Call(p, FALSE, rs))
         => (hist'[p].judged = "stale" /\ pc'[p] = "scan")]_vars

IsPrefix(s, t) == Len(s) <= Len(t) /\ SubSeq(t, 1, Len(s)) = s

\* p is inside a regeneration (lines 119-140).
InRegen(p) == pc[p] \in {"scan", "mkdir", "wres", "wmeta"}

\* C14: the steps of a regeneration happen in the order scan function
\* invoked, cache directory ensured, Result File written, fingerprint
\* computed, Metadata File written; an invocation touches the Result File only
\* after its scan returned and the directory was ensured, touches the
\* Metadata File only after it wrote the Result File, and the metadata it
\* writes names exactly the root-set string it was called with.
C14_RegenerationOrder ==
  /\ [](\A p \in Procs : IsPrefix(hist[p].log, RegenLog))
  /\ [][\A p \in Procs :
          /\ \A f \in BOOLEAN, rs \in RootStrs :
               (Call(p, f, rs) /\ pc'[p] = "scan") => roots_str'[p] = rs
          /\ (InRegen(p) /\ pc'[p] \in {"mkdir", "wres", "wmeta"})
               => roots_str'[p] = roots_str[p]
          /\ (pc'[p] # pc[p] /\ local_bundles' # local_bundles)
               => (pc[p] = "wres" /\ hist[p].log = <<"scan", "mkdir">>)
          /\ (pc'[p] # pc[p] /\ meta' # meta)
               => (pc[p] = "wmeta" /\ hist[p].log = <<"scan", "mkdir", "result">>)
          /\ Regenerated(p)
               => /\ hist'[p].log = RegenLog
                  /\ meta'.kind = "object"
                  /\ meta'.bndl_roots = StrVal(roots_str[p])]_vars

C14_Witness ==
  \E p \in Procs :
    /\ pc[p] = "returned"
    /\ hist[p].judged = "stale"
    /\ hist[p].log = RegenLog
    /\ last.ok
    /\ last.roots = <<"a", ":", " ", ":", "b">>
    /\ meta.bndl_roots = StrVal(last.roots)

\* The directories a fingerprint of the root paths rs has to cover: each one
\* that is a directory, and the directories directly in it.
TrackedOf(rs) == {d \in dirs : \E r \in rs \cap dirs : d = r \/ IsChild(d, r)}

\* The paths the roots argument names.
RootPaths(roots) == {PathStr(roots[i]) : i \in 1..Len(roots)}

\* C15: when nothing fails, the keys of computeFingerprint's result are exactly
\* the roots that are directories and the directories directly in them: no
\* plain file, no root that is missing or is a file, and no directory two
\* levels below a root unless its parent is a root itself; each value is the
\* mtime of the directory the key names.
C15_FingerprintKeys ==
  (fp_out.status # "none" /\ fault = NoFault) =>
    /\ fp_out.status = "ok"
    /\ DOMAIN fp_out.d = TrackedOf(RootPaths(fp_roots))
    /\ \A k \in DOMAIN fp_out.d : fp_out.d[k] = mtime[k] /\ k \in dirs /\ k \notin files
    /\ \A r \in RootPaths(fp_roots) : r \notin dirs => r \notin DOMAIN fp_out.d
    /\ AXY \in DOMAIN fp_out.d => AX \in RootPaths(fp_roots)

C15_Witness ==
  /\ fp_out.status = "ok"
  /\ fault = NoFault
  /\ fp_roots = <<<<"a", "/">>, <<"b">>>>
  /\ AZ \in files
  /\ B \in files
  /\ AXY \in dirs
  /\ DOMAIN fp_out.d = {A, AX}
  /\ fp_out.d[A] # fp_out.d[AX]

\* C16 (as claimed): when a call on a root fails with an OS-level error,
\* computeFingerprint raises nothing, the result has no entry contributed by
\* that root, and every other root is recorded as if nothing had failed.
C16_ErrorTolerance ==
  (fp_out.status # "none" /\ fault.op # "none" /\ fault.at \in RootPaths(fp_roots)) =>
    /\ fp_out.status = "ok"
    /\ DOMAIN fp_out.d = TrackedOf(RootPaths(fp_roots) \ {fault.at})

\* q has written the Result File and has not yet written the Metadata File.
Between(q) == pc[q] = "wmeta" /\ res_by = q

\* C17: nothing makes the pair atomic. When an invocation checks the cache
\* while another one is between its Result File write and its Metadata File
\* write, and the metadata at hand (of an earlier regeneration) is fresh for
\* its roots, it returns a cache hit: on the Result File of the running
\* regeneration and the Metadata File of another one.
C17_TornPairHit ==
  [][\A p \in Procs, q \in Procs, rs \in RootStrs :
       (p # q /\ Between(q) /\ CacheFreshFor(rs) /\ Call(p, FALSE, rs))
         => /\ hist'[p].judged = "fresh"
            /\ pc'[p] = "returned"
            /\ local_bundles' = DumpsResult(bundle_paths[q])
            /\ hist[q].log = <<"scan", "mkdir", "result">>
            /\ meta' = meta]_vars

C17_Witness ==
  \E p \in Procs, q \in Procs :
    /\ p # q
    /\ pc[p] = "returned"
    /\ hist[p].judged = "fresh"
    /\ last.ok
    /\ Between(q)
    /\ local_bundles = DumpsResult(bundle_paths[q])
    /\ hist[q].log = <<"scan", "mkdir", "result">>
    /\ meta.bndl_roots = StrVal(last.roots)
    /\ roots_str[q] # last.roots

\* C19 (as claimed): when a call returns by cache hit on a pair that one
\* complete regeneration wrote, the stored fingerprint is the layout of the
\* roots that the scan behind the Result File saw, also when another program
\* created or removed a directory under a root while that regeneration ran.
C19_HitIsCoherent ==
  [][\A p \in Procs, rs \in RootStrs :
       (pair.whole /\ Call(p, FALSE, rs) /\ hist'[p].judged = "fresh")
         => pair.coherent]_vars

\* C12: main() hands sys.argv[1:] to the wrapper's launcher, which ensures
\* the bundle cache and spawns VS Code, and main ends in one of three ways:
\* it returns after VS Code exited with 0, exits with status 1 after a
\* FileNotFoundError of the launcher, or exits with VS Code's non-zero code.
C12_EntryPoint ==
  mainp.pc = "ended" =>
    /\ launch.pc # "idle"
    /\ launch.extra_args = mainp.extra_args
    /\ mainp.how \in {"returned", "exit 1", "exit returncode"}

\* C18: launch_vscode resolves the executable only after write_local_bundles
\* has returned from a call with force false; os.environ changes only by the
\* assignment of the Result File path to ENVOY_BUNDLES_CONFIG, made before
\* anything is spawned; a call that raises FileNotFoundError has spawned
\* nothing and leaves os.environ as it found it; a call that returns has
\* spawned exactly one process, the executable followed by the extra
\* arguments in their order, with ENVOY_BUNDLES_CONFIG naming the Result File.
C18_LaunchOrdering ==
  [][
      /\ (launch.log = <<>> /\ launch'.log # <<>>)
          => /\ launch'.log = <<"ensure", "resolve">>
             /\ pc[1] = "returned"
             /\ hist[1].judged \in {"fresh", "stale"}
      /\ (environ' # environ)
          => /\ launch.log = <<"ensure", "resolve">>
             /\ launch'.spawned = <<>>
             /\ environ' = [environ EXCEPT
                              !.ENVOY_BUNDLES_CONFIG = EnvVal(LOCAL_BUNDLES_PATH)]
      /\ (launch'.pc = "raised" /\ launch'.error = "FileNotFoundError")
          => (launch'.spawned = <<>> /\ environ' = launch'.entry)
      /\ (launch'.pc # "returned") => (launch'.spawned = <<>>)
      /\ (launch'.pc = "returned")
          => /\ launch'.log = <<"ensure", "resolve", "setenv", "spawn">>
             /\ Len(launch'.spawned) = 1
             /\ launch'.spawned[1].argv = <<launch'.code_exe>> \o launch'.extra_args
             /\ launch'.spawned[1].env.ENVOY_BUNDLES_CONFIG = EnvVal(LOCAL_BUNDLES_PATH)
     ]_vars

\* A launch with two arguments returned after a cache hit, the executable
\* taken from a VSCODE_EXE with blanks around it.
C18_Witness ==
  /\ launch.pc = "returned"
  /\ launch.extra_args = <<"--wait", "f.py">>
  /\ hist[1].judged = "fresh"
  /\ environ.VSCODE_EXE = EnvVal(<<" ", "v", " ">>)
  /\ launch.code_exe = V
  /\ Len(launch.spawned) = 1

====
